---- MODULE Spec2Model ----
(***************************************************************************)
(* A model of src/color.rs of scarlet: XYZColor and its chromatic          *)
(* adaptation, the Color conversion contract, RGBColor with its sRGB       *)
(* conversion, hex printing and parsing, and the Mix implementations.      *)
(*                                                                         *)
(* f64 values are modelled as fixed-point numbers: the integer n stands    *)
(* for n / Unit.  Every arithmetic operation on them rounds its exact      *)
(* result to the nearest representable value, as f64 arithmetic does at    *)
(* its own (finer) resolution.  u8 and u16 values are plain integers.      *)
(* Strings are sequences of one-character strings.                         *)
(***************************************************************************)
EXTENDS Integers, Sequences, FiniteSets, TLC

\* ------------------------------------------------------------------ bounds
\* XYZ inputs lie on a grid of quarters: 0, 0.25, ... , MaxGrid * 0.25.
MaxGrid == 3
\* Longest chain of calls made one on the result of the other.
MaxChain == 2
\* Longest string handed to the hex parser.
MaxHexLen == 7
\* the longest colour name that is tried in every mix of upper and lower case
MaxMixedCase == 4

\* ------------------------------------------------- fixed-point arithmetic
\* The fixed-point denominator: six decimal places.
Unit == 1000 * 1000

\* The element of a one-element set.  { e(v) : v \in {d} } computes d once
\* and hands its value to e, where LET would compute d at every use of v.
Only(S) == CHOOSE v \in S : TRUE

\* The product of two values, rounded to the nearest unit.  The partial
\* products are taken two decimal digits at a time so that no intermediate
\* value leaves the 32-bit range.
mul_values(a, b) ==
    LET q  == a \div Unit
        r  == a % Unit
        r2 == r \div 10000
        r1 == (r \div 100) % 100
        r0 == r % 100
    IN  q * b + ((r2 * b + 50 + ((r1 * b + ((r0 * b) \div 100)) \div 100)) \div 100)

\* a * b on f64
Mul(a, b) == Only({ mul_values(x, y) : x \in {a}, y \in {b} })

\* The quotient of two values for a positive divisor: long division, two
\* decimal digits at a time, rounded to the nearest unit.
div_values(a, b) ==
    LET q0 == a \div b
        e0 == a % b
        d1 == (e0 * 100) \div b
        e1 == (e0 * 100) % b
        d2 == (e1 * 100) \div b
        e2 == (e1 * 100) % b
        d3 == (e2 * 100) \div b
        e3 == (e2 * 100) % b
    IN  q0 * Unit + d1 * 10000 + d2 * 100 + d3 + (IF 2 * e3 >= b THEN 1 ELSE 0)

\* a / b on f64
Div(a, b) == Only({ div_values(x, y) : x \in {a}, y \in {b} })

\* ------------------------------------------------------------ illuminants
Illuminants == {"D50", "D55", "D65", "D75"}

\* Illuminant::white_point: the XYZ white point, normalised to Y = 1.
WhitePoint(i) ==
    CASE i = "D50" -> <<964220, Unit, 825210>>
      [] i = "D55" -> <<956820, Unit, 921490>>
      [] i = "D65" -> <<950470, Unit, 1088830>>
      [] i = "D75" -> <<949720, Unit, 1226380>>

\* ---------------------------------------------------------------- XYZColor
XYZ(x, y, z, i) == [x |-> x, y |-> y, z |-> z, illuminant |-> i]

\* XYZColor::bradford_transform
bradford_transform(xyz) ==
    LET r == Mul(895100, xyz[1]) + Mul(266400, xyz[2]) - Mul(161400, xyz[3])
        g == Mul(-750200, xyz[1]) + Mul(1713500, xyz[2]) + Mul(36700, xyz[3])
        b == Mul(38900, xyz[1]) - Mul(68500, xyz[2]) + Mul(1029600, xyz[3])
    IN  <<r, g, b>>

\* The else branch taking the white point of D65 for that of the colour.
adapt_transform_from_D65(self, other_illuminant) ==
    Only({
      Only({
        LET x_c == Mul(986993, r_c) - Mul(147054, g_c) + Mul(159963, b_c)
            y_c == Mul(432305, r_c) + Mul(518360, g_c) + Mul(49291, b_c)
            z_c == Mul(-8529, r_c) + Mul(40043, g_c) + Mul(968487, b_c)
        IN  XYZ(x_c, y_c, z_c, other_illuminant) :
          r_c \in {Div(Mul(rgb[1], rgb_wr[1]), rgb_w[1])},
          g_c \in {Div(Mul(rgb[2], rgb_wr[2]), rgb_w[2])},
          b_c \in {Mul(rgb[3], Div(rgb_wr[3], rgb_w[3]))} }) :
        rgb    \in {bradford_transform(<<self.x, self.y, self.z>>)},
        rgb_w  \in {bradford_transform(WhitePoint("D65"))},
        rgb_wr \in {bradford_transform(WhitePoint(other_illuminant))} })

\* XYZColor::color_adapt, the else branch: the Bradford transform of self,
\* scaled by the ratio of the two white points and transformed back.
adapt_transform(self, other_illuminant) ==
    Only({
      Only({
        LET x_c == Mul(986993, r_c) - Mul(147054, g_c) + Mul(159963, b_c)
            y_c == Mul(432305, r_c) + Mul(518360, g_c) + Mul(49291, b_c)
            z_c == Mul(-8529, r_c) + Mul(40043, g_c) + Mul(968487, b_c)
        IN  XYZ(x_c, y_c, z_c, other_illuminant) :
          r_c \in {Div(Mul(rgb[1], rgb_wr[1]), rgb_w[1])},
          g_c \in {Div(Mul(rgb[2], rgb_wr[2]), rgb_w[2])},
          b_c \in {Mul(rgb[3], Div(rgb_wr[3], rgb_w[3]))} }) :
        rgb    \in {bradford_transform(<<self.x, self.y, self.z>>)},
        rgb_w  \in {bradford_transform(WhitePoint(self.illuminant))},
        rgb_wr \in {bradford_transform(WhitePoint(other_illuminant))} })

\* color_adapt without its shortcut for the colour's own illuminant.
color_adapt_always_transforms(self, other_illuminant) ==
    adapt_transform(self, other_illuminant)

\* color_adapt leaving the tag of the colour as it was.
color_adapt_keeps_tag(self, other_illuminant) ==
    IF other_illuminant = self.illuminant
    THEN self
    ELSE [adapt_transform(self, other_illuminant) EXCEPT !.illuminant = self.illuminant]

\* XYZColor::color_adapt
color_adapt(self, other_illuminant) ==
    IF other_illuminant = self.illuminant
    THEN self
    ELSE adapt_transform(self, other_illuminant)

\* XYZColor::approx_equal: every coordinate within 0.001
approx_equal(self, other) ==
    LET abs(v) == IF v < 0 THEN -v ELSE v
    IN  /\ abs(self.x - other.x) <= 1000
        /\ abs(self.y - other.y) <= 1000
        /\ abs(self.z - other.z) <= 1000

\* XYZColor::approx_visually_equal
approx_visually_equal(self, other) ==
    LET other_c == color_adapt(other, self.illuminant)
    IN  approx_equal(self, other_c)

\* impl Color for XYZColor: from_xyz
XYZColor_from_xyz(xyz) == xyz

\* to_xyz adapting to the illuminant it is given.
XYZColor_to_xyz_adapting(self, illuminant) == color_adapt(self, illuminant)

\* impl Color for XYZColor: to_xyz (the illuminant argument is unused)
XYZColor_to_xyz(self, illuminant) == self

\* Color::convert with Self = XYZColor and T = XYZColor
XYZColor_convert_XYZColor(self) == XYZColor_from_xyz(XYZColor_to_xyz(self, "D50"))

\* mix averaging the coordinates as they are, without adapting other.
XYZColor_mix_unadapted(self, other) ==
    XYZ(Div(self.x + other.x, 2 * Unit),
        Div(self.y + other.y, 2 * Unit),
        Div(self.z + other.z, 2 * Unit), self.illuminant)

\* mix working under the illuminant of other instead of that of self.
XYZColor_mix_under_other(self, other) ==
    Only({ XYZ(Div(self_c.x + other.x, 2 * Unit),
               Div(self_c.y + other.y, 2 * Unit),
               Div(self_c.z + other.z, 2 * Unit), other.illuminant) :
             self_c \in {color_adapt(self, other.illuminant)} })

\* impl Mix for XYZColor
XYZColor_mix(self, other) ==
    Only({
      LET c1 == <<self.x, self.y, self.z>>
          c2 == <<other_c.x, other_c.y, other_c.z>>
          mixed_coord == <<Div(c1[1] + c2[1], 2 * Unit),
                           Div(c1[2] + c2[2], 2 * Unit),
                           Div(c1[3] + c2[3], 2 * Unit)>>
      IN  XYZ(mixed_coord[1], mixed_coord[2], mixed_coord[3], self.illuminant) :
        other_c \in {color_adapt(other, self.illuminant)} })

\* ---------------------------------------------------------------- RGBColor
RGB(r, g, b) == [r |-> r, g |-> g, b |-> b]

\* impl PartialEq for RGBColor
RGBColor_eq(self, other) ==
    self.r = other.r /\ self.g = other.g /\ self.b = other.b

\* The `as u16` cast of a u8 and the `as u8` cast of a u16: the value modulo
\* the width of the target type.
as_u16(v) == v % 65536
as_u8(v) == v % 256

\* u16 addition: the sum within the 16-bit width.
u16_add(a, b) == (a + b) % 65536

\* mix adding the channels in their own 8 bits, without widening.
RGBColor_mix_unwidened(self, other) ==
    RGB(((self.r + other.r) % 256) \div 2,
        ((self.g + other.g) % 256) \div 2,
        ((self.b + other.b) % 256) \div 2)

\* impl Mix for RGBColor
RGBColor_mix(self, other) ==
    RGB(as_u8(u16_add(as_u16(self.r), as_u16(other.r)) \div 2),
        as_u8(u16_add(as_u16(self.g), as_u16(other.g)) \div 2),
        as_u8(u16_add(as_u16(self.b), as_u16(other.b)) \div 2))

RECURSIVE sqrt_between(_, _, _)
\* The largest y in lo..hi with y * y <= x.
sqrt_between(x, lo, hi) ==
    IF lo >= hi
    THEN lo
    ELSE Only({ IF Mul(mid, mid) <= x
                THEN sqrt_between(x, mid, hi)
                ELSE sqrt_between(x, lo, mid - 1) : mid \in {(lo + hi + 1) \div 2} })

RECURSIVE cbrt_between(_, _, _)
\* The largest y in lo..hi with y * y * y <= x.
cbrt_between(x, lo, hi) ==
    IF lo >= hi
    THEN lo
    ELSE Only({ IF Mul(Mul(mid, mid), mid) <= x
                THEN cbrt_between(x, mid, hi)
                ELSE cbrt_between(x, lo, mid - 1) : mid \in {(lo + hi + 1) \div 2} })

\* f64::sqrt and f64::cbrt for x >= 0; a root of x lies between 0 and
\* max(x, 1).
f64_sqrt(x) == Only({ sqrt_between(v, 0, IF v > Unit THEN v ELSE Unit) : v \in {x} })
f64_cbrt(x) == Only({ cbrt_between(v, 0, IF v > Unit THEN v ELSE Unit) : v \in {x} })

\* x.powf(1.0 / 2.4) for x >= 0: x^(5/12) = x^(1/4) * x^(1/6)
powf_1_over_2_4(x) ==
    Only({ Mul(f64_sqrt(f64_sqrt(v)), f64_sqrt(f64_cbrt(v))) : v \in {x} })

\* f64::round: the nearest integer, halves away from zero (as an integer,
\* not in units)
f64_round(x) ==
    Only({ IF v >= 0
           THEN (2 * v + Unit) \div (2 * Unit)
           ELSE -((2 * (-v) + Unit) \div (2 * Unit)) : v \in {x} })

\* The `as u8` cast of an integral f64: saturating at the ends of the range.
f64_as_u8(x) ==
    Only({ IF n >= 255 THEN 255 ELSE IF n <= 0 THEN 0 ELSE n : n \in {x} })

\* RGBColor::from_xyz: rgb_lin_vec, the XYZ to linear RGB matrix on xyz_d65
rgb_lin_vec(xyz_d65) ==
    << Mul(3240600, xyz_d65.x) - Mul(1537200, xyz_d65.y) - Mul(498600, xyz_d65.z),
       Mul(-968900, xyz_d65.x) + Mul(1875800, xyz_d65.y) + Mul(41500, xyz_d65.z),
       Mul(55700, xyz_d65.x) - Mul(204000, xyz_d65.y) + Mul(1057000, xyz_d65.z) >>

\* RGBColor::from_xyz: the closure gamma_correct on a value given in tenths
\* of a unit, in which the threshold 0.0031308 is the whole number 31308.
\* 12.92 times a tenth of y is 1.292 times y; the power is taken of y
\* rounded to units.
gamma_correct_tenths(v) ==
    Only({ IF y <= 31308
           THEN Mul(1292000, y)
           ELSE Mul(1055000, powf_1_over_2_4((y + 5) \div 10)) - 55000 : y \in {v} })

\* RGBColor::from_xyz: the closure gamma_correct
gamma_correct(v) == gamma_correct_tenths(10 * v)

\* RGBColor::from_xyz: the closure clamp
clamp(v) ==
    Only({ IF x >= Unit
           THEN Unit
           ELSE IF x <= 0
                THEN 0
                ELSE x : x \in {v} })

\* RGBColor::from_xyz: float_vec, the gamma-encoded channels
float_vec(xyz) ==
    Only({ Only({ <<gamma_correct(lin[1]), gamma_correct(lin[2]), gamma_correct(lin[3])>> :
                    lin \in {rgb_lin_vec(xyz_d65)} }) :
             xyz_d65 \in {color_adapt(xyz, "D65")} })

\* The scaling closure without its round(): the cast drops the fraction.
scale_truncate_u8(x) == f64_as_u8(Mul(255 * Unit, x) \div Unit)

\* RGBColor::from_xyz: the closure |x| (x * 255.0).round() as u8
scale_round_u8(x) == f64_as_u8(f64_round(Mul(255 * Unit, x)))

\* impl Color for RGBColor: from_xyz
RGBColor_from_xyz(xyz) ==
    Only({ RGB(scale_round_u8(clamp(fv[1])),
               scale_round_u8(clamp(fv[2])),
               scale_round_u8(clamp(fv[3]))) : fv \in {float_vec(xyz)} })

RECURSIVE fifth_root_between(_, _, _)
\* The largest y in lo..hi with y^5 <= x.
fifth_root_between(x, lo, hi) ==
    IF lo >= hi
    THEN lo
    ELSE Only({ IF Mul(Mul(Mul(Mul(mid, mid), mid), mid), mid) <= x
                THEN fifth_root_between(x, mid, hi)
                ELSE fifth_root_between(x, lo, mid - 1) : mid \in {(lo + hi + 1) \div 2} })

\* x.powf(2.4) for 0 <= x <= 1: x^(12/5) = x^2 * (x^2)^(1/5)
powf_2_4(x) ==
    Only({ Mul(sq, fifth_root_between(sq, 0, Unit)) : sq \in {Mul(x, x)} })

\* uncorrect_gamma with the threshold of gamma_correct in place of its own.
uncorrect_gamma_at_0_0031308(v) ==
    Only({ IF 10 * x <= 31308
           THEN Div(x, 12920000)
           ELSE powf_2_4(Div(x + 55000, 1055000)) : x \in {v} })

\* RGBColor::to_xyz: the closure uncorrect_gamma (0.04045 is 40450 units)
uncorrect_gamma(v) ==
    Only({ IF x <= 40450
           THEN Div(x, 12920000)
           ELSE powf_2_4(Div(x + 55000, 1055000)) : x \in {v} })

\* RGBColor::to_xyz: an element of scaled_vec, (*x as f64) / 255.0
scaled(x) == (2 * x * Unit + 255) \div (2 * 255)

\* RGBColor::to_xyz: rgb_vec, the linear channels
rgb_vec(self) ==
    << uncorrect_gamma(scaled(self.r)),
       uncorrect_gamma(scaled(self.g)),
       uncorrect_gamma(scaled(self.b)) >>

\* RGBColor::to_xyz: converted, the colour under D65
converted(self) ==
    Only({ XYZ(Mul(412400, v[1]) + Mul(357600, v[2]) + Mul(180500, v[3]),
               Mul(212600, v[1]) + Mul(715200, v[2]) + Mul(72200, v[3]),
               Mul(19300, v[1]) + Mul(119200, v[2]) + Mul(950500, v[3]),
               "D65") : v \in {rgb_vec(self)} })

\* to_xyz tagging the D65 coordinates with the illuminant asked for instead
\* of adapting them to it.
RGBColor_to_xyz_retagged(self, illuminant) ==
    [converted(self) EXCEPT !.illuminant = illuminant]

\* impl Color for RGBColor: to_xyz
RGBColor_to_xyz(self, illuminant) ==
    color_adapt(converted(self), illuminant)

\* Color::convert::<RGBColor>() for RGBColor
RGBColor_convert_RGBColor(self) ==
    RGBColor_from_xyz(RGBColor_to_xyz(self, "D50"))

\* ------------------------------------------------ hex printing and parsing
UpperHexDigits ==
    <<"0", "1", "2", "3", "4", "5", "6", "7", "8", "9", "A", "B", "C", "D", "E", "F">>
LowerHexDigits ==
    <<"0", "1", "2", "3", "4", "5", "6", "7", "8", "9", "a", "b", "c", "d", "e", "f">>

RECURSIVE digits_of(_, _)
\* The base-16 digits of v, most significant first, drawn from `table`.
digits_of(v, table) ==
    IF v < 16
    THEN <<table[v + 1]>>
    ELSE digits_of(v \div 16, table) \o <<table[(v % 16) + 1]>>

\* {:X}: upper-case hex without the padding.
fmt_X_unpadded(v) == digits_of(v, UpperHexDigits)

\* {:02x}: lower-case hex, zero-padded to two characters.
fmt_02x_lower(v) ==
    LET d == digits_of(v, LowerHexDigits)
    IN  IF Len(d) < 2 THEN <<"0">> \o d ELSE d

\* The format spec {:02X} applied to a u8: upper-case hex, zero-padded to
\* two characters.
fmt_02X(v) ==
    LET d == digits_of(v, UpperHexDigits)
    IN  IF Len(d) < 2 THEN <<"0">> \o d ELSE d

\* impl ToString for RGBColor
RGBColor_to_string(self) ==
    <<"#">> \o fmt_02X(self.r) \o fmt_02X(self.g) \o fmt_02X(self.b)

\* Result values, and the outcome of a call that panics.
Ok(v) == [tag |-> "Ok", val |-> v]
Err(e) == [tag |-> "Err", val |-> e]
Panic(m) == [tag |-> "panic", val |-> m]

\* The value of one character as a base-16 digit, -1 if it is none.
to_digit(c) ==
    IF \E i \in 1..16 : UpperHexDigits[i] = c
    THEN (CHOOSE i \in 1..16 : UpperHexDigits[i] = c) - 1
    ELSE IF \E i \in 1..16 : LowerHexDigits[i] = c
         THEN (CHOOSE i \in 1..16 : LowerHexDigits[i] = c) - 1
         ELSE -1

RECURSIVE radix16(_, _)
\* The digits of chars read as a base-16 number on top of acc; -1 when a
\* character is no digit or the value does not fit a u8.
radix16(chars, acc) ==
    IF chars = <<>>
    THEN acc
    ELSE Only({ IF d < 0 \/ acc * 16 + d > 255
                THEN -1
                ELSE radix16(Tail(chars), acc * 16 + d) : d \in {to_digit(Head(chars))} })

\* u8::from_str_radix(s, 16)
u8_from_str_radix(chars) ==
    IF chars = <<>> \/ radix16(chars, 0) < 0
    THEN Err("ParseIntError")
    ELSE Ok(radix16(chars, 0))

\* The characters of "0123456789ABCDEFabcdef"
HexChars ==
    {UpperHexDigits[i] : i \in 1..16} \cup {LowerHexDigits[i] : i \in 1..16}

\* from_hex_code reading each digit of the three-digit form once instead of
\* twice.
RGBColor_from_hex_code_undoubled(hex) ==
    IF Len(hex) = 0
    THEN Panic("index out of bounds")
    ELSE LET chars == IF hex[1] = "#" THEN Tail(hex) ELSE hex
             pair(i) == IF Len(chars) = 6
                        THEN u8_from_str_radix(SubSeq(chars, 2 * i - 1, 2 * i))
                        ELSE u8_from_str_radix(<<chars[i]>>)
         IN  IF Len(chars) # 3 /\ Len(chars) # 6
             THEN Err("InvalidHexSyntax")
             ELSE IF ~ \A i \in 1..Len(chars) : chars[i] \in HexChars
             THEN Err("InvalidHexSyntax")
             ELSE IF \E i \in 1..3 : pair(i).tag = "Err"
             THEN Panic("unwrap on Err")
             ELSE Ok(RGB(pair(1).val, pair(2).val, pair(3).val))

\* RGBColor::from_hex_code.  chars[0] on an empty vector and unwrap() on an
\* Err are panics.
RGBColor_from_hex_code(hex) ==
    IF Len(hex) = 0
    THEN Panic("index out of bounds")
    ELSE LET chars == IF hex[1] = "#" THEN Tail(hex) ELSE hex
             pair(i) == IF Len(chars) = 6
                        THEN u8_from_str_radix(SubSeq(chars, 2 * i - 1, 2 * i))
                        ELSE u8_from_str_radix(<<chars[i], chars[i]>>)
         IN  IF Len(chars) # 3 /\ Len(chars) # 6
             THEN Err("InvalidHexSyntax")
             ELSE IF ~ \A i \in 1..Len(chars) : chars[i] \in HexChars
             THEN Err("InvalidHexSyntax")
             ELSE IF \E i \in 1..3 : pair(i).tag = "Err"
             THEN Panic("unwrap on Err")
             ELSE Ok(RGB(pair(1).val, pair(2).val, pair(3).val))

\* ------------------------------------------------------------ colour names
LowerLetters ==
    <<"a", "b", "c", "d", "e", "f", "g", "h", "i", "j", "k", "l", "m", "n", "o", "p", "q", "r", "s", "t", "u", "v", "w", "x", "y", "z">>
UpperLetters ==
    <<"A", "B", "C", "D", "E", "F", "G", "H", "I", "J", "K", "L", "M", "N", "O", "P", "Q", "R", "S", "T", "U", "V", "W", "X", "Y", "Z">>

\* char::to_lowercase and char::to_uppercase on the characters used here:
\* the letters A-Z and a-z change case, every other character stays.
char_to_lowercase(c) ==
    IF \E i \in 1..26 : UpperLetters[i] = c
    THEN LowerLetters[CHOOSE i \in 1..26 : UpperLetters[i] = c]
    ELSE c
char_to_uppercase(c) ==
    IF \E i \in 1..26 : LowerLetters[i] = c
    THEN UpperLetters[CHOOSE i \in 1..26 : LowerLetters[i] = c]
    ELSE c

\* str::to_lowercase
to_lowercase(s) == [i \in 1..Len(s) |-> char_to_lowercase(s[i])]

\* RGBColor::from_color_name: color_names, one sequence of characters per
\* name
color_names ==
    <<
       <<"a", "l", "i", "c", "e", "b", "l", "u", "e">>,
       <<"a", "n", "t", "i", "q", "u", "e", "w", "h", "i", "t", "e">>,
       <<"a", "q", "u", "a">>,
       <<"a", "q", "u", "a", "m", "a", "r", "i", "n", "e">>,
       <<"a", "z", "u", "r", "e">>,
       <<"b", "e", "i", "g", "e">>,
       <<"b", "i", "s", "q", "u", "e">>,
       <<"b", "l", "a", "c", "k">>,
       <<"b", "l", "a", "n", "c", "h", "e", "d", "a", "l", "m", "o", "n", "d">>,
       <<"b", "l", "u", "e">>,
       <<"b", "l", "u", "e", "v", "i", "o", "l", "e", "t">>,
       <<"b", "r", "o", "w", "n">>,
       <<"b", "u", "r", "l", "y", "w", "o", "o", "d">>,
       <<"c", "a", "d", "e", "t", "b", "l", "u", "e">>,
       <<"c", "h", "a", "r", "t", "r", "e", "u", "s", "e">>,
       <<"c", "h", "o", "c", "o", "l", "a", "t", "e">>,
       <<"c", "o", "r", "a", "l">>,
       <<"c", "o", "r", "n", "f", "l", "o", "w", "e", "r", "b", "l", "u", "e">>,
       <<"c", "o", "r", "n", "s", "i", "l", "k">>,
       <<"c", "r", "i", "m", "s", "o", "n">>,
       <<"c", "y", "a", "n">>,
       <<"d", "a", "r", "k", "b", "l", "u", "e">>,
       <<"d", "a", "r", "k", "c", "y", "a", "n">>,
       <<"d", "a", "r", "k", "g", "o", "l", "d", "e", "n", "r", "o", "d">>,
       <<"d", "a", "r", "k", "g", "r", "a", "y">>,
       <<"d", "a", "r", "k", "g", "r", "e", "e", "n">>,
       <<"d", "a", "r", "k", "g", "r", "e", "y">>,
       <<"d", "a", "r", "k", "k", "h", "a", "k", "i">>,
       <<"d", "a", "r", "k", "m", "a", "g", "e", "n", "t", "a">>,
       <<"d", "a", "r", "k", "o", "l", "i", "v", "e", "g", "r", "e", "e", "n">>,
       <<"d", "a", "r", "k", "o", "r", "a", "n", "g", "e">>,
       <<"d", "a", "r", "k", "o", "r", "c", "h", "i", "d">>,
       <<"d", "a", "r", "k", "r", "e", "d">>,
       <<"d", "a", "r", "k", "s", "a", "l", "m", "o", "n">>,
       <<"d", "a", "r", "k", "s", "e", "a", "g", "r", "e", "e", "n">>,
       <<"d", "a", "r", "k", "s", "l", "a", "t", "e", "b", "l", "u", "e">>,
       <<"d", "a", "r", "k", "s", "l", "a", "t", "e", "g", "r", "a", "y">>,
       <<"d", "a", "r", "k", "s", "l", "a", "t", "e", "g", "r", "e", "y">>,
       <<"d", "a", "r", "k", "t", "u", "r", "q", "u", "o", "i", "s", "e">>,
       <<"d", "a", "r", "k", "v", "i", "o", "l", "e", "t">>,
       <<"d", "e", "e", "p", "p", "i", "n", "k">>,
       <<"d", "e", "e", "p", "s", "k", "y", "b", "l", "u", "e">>,
       <<"d", "i", "m", "g", "r", "a", "y">>,
       <<"d", "i", "m", "g", "r", "e", "y">>,
       <<"d", "o", "d", "g", "e", "r", "b", "l", "u", "e">>,
       <<"f", "i", "r", "e", "b", "r", "i", "c", "k">>,
       <<"f", "l", "o", "r", "a", "l", "w", "h", "i", "t", "e">>,
       <<"f", "o", "r", "e", "s", "t", "g", "r", "e", "e", "n">>,
       <<"f", "u", "c", "h", "s", "i", "a">>,
       <<"g", "a", "i", "n", "s", "b", "o", "r", "o">>,
       <<"g", "h", "o", "s", "t", "w", "h", "i", "t", "e">>,
       <<"g", "o", "l", "d">>,
       <<"g", "o", "l", "d", "e", "n", "r", "o", "d">>,
       <<"g", "r", "a", "y">>,
       <<"g", "r", "e", "e", "n">>,
       <<"g", "r", "e", "e", "n", "y", "e", "l", "l", "o", "w">>,
       <<"g", "r", "e", "y">>,
       <<"h", "o", "n", "e", "y", "d", "e", "w">>,
       <<"h", "o", "t", "p", "i", "n", "k">>,
       <<"i", "n", "d", "i", "a", "n", "r", "e", "d">>,
       <<"i", "n", "d", "i", "g", "o">>,
       <<"i", "v", "o", "r", "y">>,
       <<"k", "h", "a", "k", "i">>,
       <<"l", "a", "v", "e", "n", "d", "e", "r">>,
       <<"l", "a", "v", "e", "n", "d", "e", "r", "b", "l", "u", "s", "h">>,
       <<"l", "a", "w", "n", "g", "r", "e", "e", "n">>,
       <<"l", "e", "m", "o", "n", "c", "h", "i", "f", "f", "o", "n">>,
       <<"l", "i", "g", "h", "t", "b", "l", "u", "e">>,
       <<"l", "i", "g", "h", "t", "c", "o", "r", "a", "l">>,
       <<"l", "i", "g", "h", "t", "c", "y", "a", "n">>,
       <<"l", "i", "g", "h", "t", "g", "o", "l", "d", "e", "n", "r", "o", "d", "y", "e", "l", "l", "o", "w">>,
       <<"l", "i", "g", "h", "t", "g", "r", "a", "y">>,
       <<"l", "i", "g", "h", "t", "g", "r", "e", "e", "n">>,
       <<"l", "i", "g", "h", "t", "g", "r", "e", "y">>,
       <<"l", "i", "g", "h", "t", "p", "i", "n", "k">>,
       <<"l", "i", "g", "h", "t", "s", "a", "l", "m", "o", "n">>,
       <<"l", "i", "g", "h", "t", "s", "e", "a", "g", "r", "e", "e", "n">>,
       <<"l", "i", "g", "h", "t", "s", "k", "y", "b", "l", "u", "e">>,
       <<"l", "i", "g", "h", "t", "s", "l", "a", "t", "e", "g", "r", "a", "y">>,
       <<"l", "i", "g", "h", "t", "s", "l", "a", "t", "e", "g", "r", "e", "y">>,
       <<"l", "i", "g", "h", "t", "s", "t", "e", "e", "l", "b", "l", "u", "e">>,
       <<"l", "i", "g", "h", "t", "y", "e", "l", "l", "o", "w">>,
       <<"l", "i", "m", "e">>,
       <<"l", "i", "m", "e", "g", "r", "e", "e", "n">>,
       <<"l", "i", "n", "e", "n">>,
       <<"m", "a", "g", "e", "n", "t", "a">>,
       <<"m", "a", "r", "o", "o", "n">>,
       <<"m", "e", "d", "i", "u", "m", "a", "q", "u", "a", "m", "a", "r", "i", "n", "e">>,
       <<"m", "e", "d", "i", "u", "m", "b", "l", "u", "e">>,
       <<"m", "e", "d", "i", "u", "m", "o", "r", "c", "h", "i", "d">>,
       <<"m", "e", "d", "i", "u", "m", "p", "u", "r", "p", "l", "e">>,
       <<"m", "e", "d", "i", "u", "m", "s", "e", "a", "g", "r", "e", "e", "n">>,
       <<"m", "e", "d", "i", "u", "m", "s", "l", "a", "t", "e", "b", "l", "u", "e">>,
       <<"m", "e", "d", "i", "u", "m", "s", "p", "r", "i", "n", "g", "g", "r", "e", "e", "n">>,
       <<"m", "e", "d", "i", "u", "m", "t", "u", "r", "q", "u", "o", "i", "s", "e">>,
       <<"m", "e", "d", "i", "u", "m", "v", "i", "o", "l", "e", "t", "r", "e", "d">>,
       <<"m", "i", "d", "n", "i", "g", "h", "t", "b", "l", "u", "e">>,
       <<"m", "i", "n", "t", "c", "r", "e", "a", "m">>,
       <<"m", "i", "s", "t", "y", "r", "o", "s", "e">>,
       <<"m", "o", "c", "c", "a", "s", "i", "n">>,
       <<"n", "a", "v", "a", "j", "o", "w", "h", "i", "t", "e">>,
       <<"n", "a", "v", "y">>,
       <<"o", "l", "d", "l", "a", "c", "e">>,
       <<"o", "l", "i", "v", "e">>,
       <<"o", "l", "i", "v", "e", "d", "r", "a", "b">>,
       <<"o", "r", "a", "n", "g", "e">>,
       <<"o", "r", "a", "n", "g", "e", "r", "e", "d">>,
       <<"o", "r", "c", "h", "i", "d">>,
       <<"p", "a", "l", "e", "g", "o", "l", "d", "e", "n", "r", "o", "d">>,
       <<"p", "a", "l", "e", "g", "r", "e", "e", "n">>,
       <<"p", "a", "l", "e", "t", "u", "r", "q", "u", "o", "i", "s", "e">>,
       <<"p", "a", "l", "e", "v", "i", "o", "l", "e", "t", "r", "e", "d">>,
       <<"p", "a", "p", "a", "y", "a", "w", "h", "i", "p">>,
       <<"p", "e", "a", "c", "h", "p", "u", "f", "f">>,
       <<"p", "e", "r", "u">>,
       <<"p", "i", "n", "k">>,
       <<"p", "l", "u", "m">>,
       <<"p", "o", "w", "d", "e", "r", "b", "l", "u", "e">>,
       <<"p", "u", "r", "p", "l", "e">>,
       <<"r", "e", "b", "e", "c", "c", "a", "p", "u", "r", "p", "l", "e">>,
       <<"r", "e", "d">>,
       <<"r", "o", "s", "y", "b", "r", "o", "w", "n">>,
       <<"r", "o", "y", "a", "l", "b", "l", "u", "e">>,
       <<"s", "a", "d", "d", "l", "e", "b", "r", "o", "w", "n">>,
       <<"s", "a", "l", "m", "o", "n">>,
       <<"s", "a", "n", "d", "y", "b", "r", "o", "w", "n">>,
       <<"s", "e", "a", "g", "r", "e", "e", "n">>,
       <<"s", "e", "a", "s", "h", "e", "l", "l">>,
       <<"s", "i", "e", "n", "n", "a">>,
       <<"s", "i", "l", "v", "e", "r">>,
       <<"s", "k", "y", "b", "l", "u", "e">>,
       <<"s", "l", "a", "t", "e", "b", "l", "u", "e">>,
       <<"s", "l", "a", "t", "e", "g", "r", "a", "y">>,
       <<"s", "l", "a", "t", "e", "g", "r", "e", "y">>,
       <<"s", "n", "o", "w">>,
       <<"s", "p", "r", "i", "n", "g", "g", "r", "e", "e", "n">>,
       <<"s", "t", "e", "e", "l", "b", "l", "u", "e">>,
       <<"t", "a", "n">>,
       <<"t", "e", "a", "l">>,
       <<"t", "h", "i", "s", "t", "l", "e">>,
       <<"t", "o", "m", "a", "t", "o">>,
       <<"t", "u", "r", "q", "u", "o", "i", "s", "e">>,
       <<"v", "i", "o", "l", "e", "t">>,
       <<"w", "h", "e", "a", "t">>,
       <<"w", "h", "i", "t", "e">>,
       <<"w", "h", "i", "t", "e", "s", "m", "o", "k", "e">>,
       <<"y", "e", "l", "l", "o", "w">>,
       <<"y", "e", "l", "l", "o", "w", "g", "r", "e", "e", "n">>
    >>

\* RGBColor::from_color_name: color_codes
color_codes ==
    <<
       <<"#", "f", "0", "f", "8", "f", "f">>,
       <<"#", "f", "a", "e", "b", "d", "7">>,
       <<"#", "0", "0", "f", "f", "f", "f">>,
       <<"#", "7", "f", "f", "f", "d", "4">>,
       <<"#", "f", "0", "f", "f", "f", "f">>,
       <<"#", "f", "5", "f", "5", "d", "c">>,
       <<"#", "f", "f", "e", "4", "c", "4">>,
       <<"#", "0", "0", "0", "0", "0", "0">>,
       <<"#", "f", "f", "e", "b", "c", "d">>,
       <<"#", "0", "0", "0", "0", "f", "f">>,
       <<"#", "8", "a", "2", "b", "e", "2">>,
       <<"#", "a", "5", "2", "a", "2", "a">>,
       <<"#", "d", "e", "b", "8", "8", "7">>,
       <<"#", "5", "f", "9", "e", "a", "0">>,
       <<"#", "7", "f", "f", "f", "0", "0">>,
       <<"#", "d", "2", "6", "9", "1", "e">>,
       <<"#", "f", "f", "7", "f", "5", "0">>,
       <<"#", "6", "4", "9", "5", "e", "d">>,
       <<"#", "f", "f", "f", "8", "d", "c">>,
       <<"#", "d", "c", "1", "4", "3", "c">>,
       <<"#", "0", "0", "f", "f", "f", "f">>,
       <<"#", "0", "0", "0", "0", "8", "b">>,
       <<"#", "0", "0", "8", "b", "8", "b">>,
       <<"#", "b", "8", "8", "6", "0", "b">>,
       <<"#", "a", "9", "a", "9", "a", "9">>,
       <<"#", "0", "0", "6", "4", "0", "0">>,
       <<"#", "a", "9", "a", "9", "a", "9">>,
       <<"#", "b", "d", "b", "7", "6", "b">>,
       <<"#", "8", "b", "0", "0", "8", "b">>,
       <<"#", "5", "5", "6", "b", "2", "f">>,
       <<"#", "f", "f", "8", "c", "0", "0">>,
       <<"#", "9", "9", "3", "2", "c", "c">>,
       <<"#", "8", "b", "0", "0", "0", "0">>,
       <<"#", "e", "9", "9", "6", "7", "a">>,
       <<"#", "8", "f", "b", "c", "8", "f">>,
       <<"#", "4", "8", "3", "d", "8", "b">>,
       <<"#", "2", "f", "4", "f", "4", "f">>,
       <<"#", "2", "f", "4", "f", "4", "f">>,
       <<"#", "0", "0", "c", "e", "d", "1">>,
       <<"#", "9", "4", "0", "0", "d", "3">>,
       <<"#", "f", "f", "1", "4", "9", "3">>,
       <<"#", "0", "0", "b", "f", "f", "f">>,
       <<"#", "6", "9", "6", "9", "6", "9">>,
       <<"#", "6", "9", "6", "9", "6", "9">>,
       <<"#", "1", "e", "9", "0", "f", "f">>,
       <<"#", "b", "2", "2", "2", "2", "2">>,
       <<"#", "f", "f", "f", "a", "f", "0">>,
       <<"#", "2", "2", "8", "b", "2", "2">>,
       <<"#", "f", "f", "0", "0", "f", "f">>,
       <<"#", "d", "c", "d", "c", "d", "c">>,
       <<"#", "f", "8", "f", "8", "f", "f">>,
       <<"#", "f", "f", "d", "7", "0", "0">>,
       <<"#", "d", "a", "a", "5", "2", "0">>,
       <<"#", "8", "0", "8", "0", "8", "0">>,
       <<"#", "0", "0", "8", "0", "0", "0">>,
       <<"#", "a", "d", "f", "f", "2", "f">>,
       <<"#", "8", "0", "8", "0", "8", "0">>,
       <<"#", "f", "0", "f", "f", "f", "0">>,
       <<"#", "f", "f", "6", "9", "b", "4">>,
       <<"#", "c", "d", "5", "c", "5", "c">>,
       <<"#", "4", "b", "0", "0", "8", "2">>,
       <<"#", "f", "f", "f", "f", "f", "0">>,
       <<"#", "f", "0", "e", "6", "8", "c">>,
       <<"#", "e", "6", "e", "6", "f", "a">>,
       <<"#", "f", "f", "f", "0", "f", "5">>,
       <<"#", "7", "c", "f", "c", "0", "0">>,
       <<"#", "f", "f", "f", "a", "c", "d">>,
       <<"#", "a", "d", "d", "8", "e", "6">>,
       <<"#", "f", "0", "8", "0", "8", "0">>,
       <<"#", "e", "0", "f", "f", "f", "f">>,
       <<"#", "f", "a", "f", "a", "d", "2">>,
       <<"#", "d", "3", "d", "3", "d", "3">>,
       <<"#", "9", "0", "e", "e", "9", "0">>,
       <<"#", "d", "3", "d", "3", "d", "3">>,
       <<"#", "f", "f", "b", "6", "c", "1">>,
       <<"#", "f", "f", "a", "0", "7", "a">>,
       <<"#", "2", "0", "b", "2", "a", "a">>,
       <<"#", "8", "7", "c", "e", "f", "a">>,
       <<"#", "7", "7", "8", "8", "9", "9">>,
       <<"#", "7", "7", "8", "8", "9", "9">>,
       <<"#", "b", "0", "c", "4", "d", "e">>,
       <<"#", "f", "f", "f", "f", "e", "0">>,
       <<"#", "0", "0", "f", "f", "0", "0">>,
       <<"#", "3", "2", "c", "d", "3", "2">>,
       <<"#", "f", "a", "f", "0", "e", "6">>,
       <<"#", "f", "f", "0", "0", "f", "f">>,
       <<"#", "8", "0", "0", "0", "0", "0">>,
       <<"#", "6", "6", "c", "d", "a", "a">>,
       <<"#", "0", "0", "0", "0", "c", "d">>,
       <<"#", "b", "a", "5", "5", "d", "3">>,
       <<"#", "9", "3", "7", "0", "d", "b">>,
       <<"#", "3", "c", "b", "3", "7", "1">>,
       <<"#", "7", "b", "6", "8", "e", "e">>,
       <<"#", "0", "0", "f", "a", "9", "a">>,
       <<"#", "4", "8", "d", "1", "c", "c">>,
       <<"#", "c", "7", "1", "5", "8", "5">>,
       <<"#", "1", "9", "1", "9", "7", "0">>,
       <<"#", "f", "5", "f", "f", "f", "a">>,
       <<"#", "f", "f", "e", "4", "e", "1">>,
       <<"#", "f", "f", "e", "4", "b", "5">>,
       <<"#", "f", "f", "d", "e", "a", "d">>,
       <<"#", "0", "0", "0", "0", "8", "0">>,
       <<"#", "f", "d", "f", "5", "e", "6">>,
       <<"#", "8", "0", "8", "0", "0", "0">>,
       <<"#", "6", "b", "8", "e", "2", "3">>,
       <<"#", "f", "f", "a", "5", "0", "0">>,
       <<"#", "f", "f", "4", "5", "0", "0">>,
       <<"#", "d", "a", "7", "0", "d", "6">>,
       <<"#", "e", "e", "e", "8", "a", "a">>,
       <<"#", "9", "8", "f", "b", "9", "8">>,
       <<"#", "a", "f", "e", "e", "e", "e">>,
       <<"#", "d", "b", "7", "0", "9", "3">>,
       <<"#", "f", "f", "e", "f", "d", "5">>,
       <<"#", "f", "f", "d", "a", "b", "9">>,
       <<"#", "c", "d", "8", "5", "3", "f">>,
       <<"#", "f", "f", "c", "0", "c", "b">>,
       <<"#", "d", "d", "a", "0", "d", "d">>,
       <<"#", "b", "0", "e", "0", "e", "6">>,
       <<"#", "8", "0", "0", "0", "8", "0">>,
       <<"#", "6", "6", "3", "3", "9", "9">>,
       <<"#", "f", "f", "0", "0", "0", "0">>,
       <<"#", "b", "c", "8", "f", "8", "f">>,
       <<"#", "4", "1", "6", "9", "e", "1">>,
       <<"#", "8", "b", "4", "5", "1", "3">>,
       <<"#", "f", "a", "8", "0", "7", "2">>,
       <<"#", "f", "4", "a", "4", "6", "0">>,
       <<"#", "2", "e", "8", "b", "5", "7">>,
       <<"#", "f", "f", "f", "5", "e", "e">>,
       <<"#", "a", "0", "5", "2", "2", "d">>,
       <<"#", "c", "0", "c", "0", "c", "0">>,
       <<"#", "8", "7", "c", "e", "e", "b">>,
       <<"#", "6", "a", "5", "a", "c", "d">>,
       <<"#", "7", "0", "8", "0", "9", "0">>,
       <<"#", "7", "0", "8", "0", "9", "0">>,
       <<"#", "f", "f", "f", "a", "f", "a">>,
       <<"#", "0", "0", "f", "f", "7", "f">>,
       <<"#", "4", "6", "8", "2", "b", "4">>,
       <<"#", "d", "2", "b", "4", "8", "c">>,
       <<"#", "0", "0", "8", "0", "8", "0">>,
       <<"#", "d", "8", "b", "f", "d", "8">>,
       <<"#", "f", "f", "6", "3", "4", "7">>,
       <<"#", "4", "0", "e", "0", "d", "0">>,
       <<"#", "e", "e", "8", "2", "e", "e">>,
       <<"#", "f", "5", "d", "e", "b", "3">>,
       <<"#", "f", "f", "f", "f", "f", "f">>,
       <<"#", "f", "5", "f", "5", "f", "5">>,
       <<"#", "f", "f", "f", "f", "0", "0">>,
       <<"#", "9", "a", "c", "d", "3", "2">>
    >>

\* The largest element of a non-empty set of numbers.
Max(S) == CHOOSE m \in S : \A n \in S : n <= m

\* RGBColor::from_color_name: names_to_codes.get(key) after the loop of
\* inserts, in which a later insert of a key replaces an earlier one; <<>>
\* stands for None.
names_to_codes_get(key) ==
    Only({ IF idx = {} THEN <<>> ELSE color_codes[Max(idx)] :
             idx \in {{i \in 1..Len(color_names) : color_names[i] = key}} })

\* from_color_name looking up the name as it was given.
RGBColor_from_color_name_case_sensitive(name) ==
    IF Len(color_codes) < Len(color_names)
    THEN Panic("index out of bounds")
    ELSE Only({ IF x = <<>>
                THEN Err("InvalidX11Name")
                ELSE RGBColor_from_hex_code(x) : x \in {names_to_codes_get(name)} })

\* RGBColor::from_color_name.  color_codes[i] beyond the end of color_codes
\* is a panic.
RGBColor_from_color_name(name) ==
    IF Len(color_codes) < Len(color_names)
    THEN Panic("index out of bounds")
    ELSE Only({ IF x = <<>>
                THEN Err("InvalidX11Name")
                ELSE RGBColor_from_hex_code(x) :
                  x \in {names_to_codes_get(to_lowercase(name))} })

\* ------------------------------------------------------------------ inputs
Quarter == Unit \div 4

\* The XYZ colours the operations are called on.
XYZInputs ==
    { XYZ(i * Quarter, j * Quarter, k * Quarter, l) :
        i \in 0..MaxGrid, j \in 0..MaxGrid, k \in 0..MaxGrid, l \in Illuminants }

\* The XYZ colours that are mixed: the grid without the zero coordinate.
MixInputs ==
    { c \in XYZInputs : c.x > 0 /\ c.y > 0 /\ c.z > 0 }

\* The XYZ colours they are mixed with: those whose coordinates add up to
\* 1.5, as the coordinates of the colours of test_mix_xyz do.
MixOthers ==
    { c \in MixInputs : c.x + c.y + c.z = 6 * Quarter }

\* Channel values whose two hex digits cover every digit in either place,
\* with the ends of the range and the values of test_rgb_to_string.
HexChannels ==
    {8 + 17 * k : k \in 0..7} \cup {128 + 17 * k : k \in 0..7} \cup {0, 255, 244, 182, 33}

\* The RGB colours that are printed.
RGBInputs ==
    { RGB(r, g, b) : r \in HexChannels, g \in HexChannels, b \in HexChannels }

\* The RGB colours that are mixed: the channel values around the middle and
\* at the ends of the range, and the colours of test_mix_rgb.
RGBMixInputs ==
    { RGB(r, g, b) : r \in {0, 1, 127, 128, 255}, g \in {0, 1, 127, 128, 255},
                     b \in {0, 1, 127, 128, 255} }
        \cup {RGB(0, 0, 255), RGB(255, 0, 1), RGB(127, 7, 19)}

\* The strings handed to from_hex_code: every string of up to MaxHexLen
\* characters over a hash sign, a hex digit and a letter that is none; every
\* hash sign followed by six of four upper-case digits; six or three digits
\* of either case, with the hash sign and without; and the strings of
\* test_rgb_from_hex.
HexInputs ==
    UNION { [1..n -> {"#", "F", "g"}] : n \in 0..MaxHexLen }
        \cup { <<"#">> \o d : d \in [1..6 -> {"0", "9", "A", "E"}] }
        \cup { <<"#">> \o d : d \in [1..3 -> {"3", "7", "b", "c", "D"}] }
        \cup { d : d \in [1..6 -> {"1", "a", "d", "B"}] }
        \cup { d : d \in [1..3 -> {"2", "8", "e", "f", "C"}] }
        \cup { <<"#", "1", "7", "2", "8", "4", "4">>,
               <<"a", "1", "F", "1", "d", "B">>,
               <<"#", "1", "2", "4", "4", "4", "4", "4">>,
               <<"#", "f", "f", "g", "g", "b", "b">> }

\* The RGB colours that are converted to XYZ and back: the channel values
\* at the ends of the range, either side of the gamma threshold and in the
\* middle, in every combination; one channel running through the range
\* while the other two sit at opposite ends of it, where the other
\* channels weigh most on it; and the colours of the tests rgb_to_xyz and
\* xyz_to_rgb.
RoundTripInputs ==
    { RGB(r, g, b) : r \in {0, 10, 11, 128, 255}, g \in {0, 10, 11, 128, 255},
                     b \in {0, 10, 11, 128, 255} }
        \cup UNION { { RGB(v, 0, 255), RGB(v, 255, 0), RGB(0, v, 255),
                       RGB(255, v, 0), RGB(0, 255, v), RGB(255, 0, v) } :
                     v \in {15 * k : k \in 0..17} }
        \cup {RGB(45, 28, 156), RGB(254, 23, 55)}

\* XYZ colours far outside the nominal range, with coordinates of millions.
\* Their coordinates are kept in whole numbers (see the variable one).
WideXYZInputs ==
    { XYZ(10 * i * Quarter, 10 * j * Quarter, 10 * k * Quarter, l) :
        i \in 1..3, j \in 1..3, k \in 1..3, l \in Illuminants }

\* The linear values handed to gamma_correct, in tenths of a unit: the
\* threshold 0.0031308 and the values next to it, zero, and the values from
\* -1 to 3 in steps of a quarter, which the linear channels of the colours
\* of XYZInputs lie between.
GammaInputs ==
    {31307, 31308, 31309, 31310, 0, -1, 1}
        \cup {10 * k * Quarter : k \in -4..12}

\* The name n with the characters at the indices in `upper` in upper case.
WithCase(n, upper) ==
    [i \in 1..Len(n) |-> IF i \in upper THEN char_to_uppercase(n[i]) ELSE n[i]]

\* The strings handed to from_color_name: every listed name in lower case,
\* in upper case, capitalised, and with every second letter in upper case;
\* the names of up to MaxMixedCase letters in every mix of cases; the two
\* strings of test_rgb_from_name; and strings that are no names: the empty
\* string, every name without its last letter, with a letter or a space
\* after it and behind a hash sign, and every code of the table.
NameInputs ==
    UNION { { WithCase(n, {}), WithCase(n, 1..Len(n)), WithCase(n, {1}),
              WithCase(n, {i \in 1..Len(n) : i % 2 = 0}),
              WithCase(n, {i \in 1..Len(n) : i % 2 = 1}) } :
            n \in {color_names[k] : k \in 1..Len(color_names)} }
        \cup UNION { { WithCase(n, upper) : upper \in SUBSET (1..Len(n)) } :
                     n \in {c \in {color_names[k] : k \in 1..Len(color_names)} :
                              Len(c) <= MaxMixedCase} }
        \cup { <<"y", "e", "L", "l", "o", "w", "g", "r", "e", "E", "n">>,
               <<"t", "h", "i", "s", "i", "s", "n", "o", "t", "a", "v", "a", "l", "i", "d",
                 "n", "a", "m", "e", "l", "o", "l">>,
               <<>> }
        \cup UNION { { SubSeq(n, 1, Len(n) - 1), n \o <<"s">>, n \o <<" ">>, <<"#">> \o n } :
                     n \in {color_names[k] : k \in 1..Len(color_names)} }
        \cup { color_codes[k] : k \in 1..Len(color_codes) }

\* ------------------------------------------------------------------- state
VARIABLES
    op,     \* the operation called last
    recv,   \* its receiver (or its only argument, for associated functions)
    arg,    \* its other argument, "-" when it has none
    ret,    \* the value it returned
    orig,   \* the receiver of the first call of a chain, "-" outside a chain
    chain,  \* the operations of the chain before this call
    one     \* the number that stands for the coordinate 1.0 in the XYZ
            \* colours of this call: Unit, or 1 for the colours of
            \* WideXYZInputs, whose coordinates are rounded to whole numbers

vars == <<op, recv, arg, ret, orig, chain, one>>

Init ==
    /\ op = "none"
    /\ recv = "-"
    /\ arg = "-"
    /\ ret = "-"
    /\ orig = "-"
    /\ chain = <<>>
    /\ one = Unit

\* The outcome of a call on newly made values.
Call(o, s, a, r) ==
    /\ op' = o
    /\ recv' = s
    /\ arg' = a
    /\ ret' = r
    /\ orig' = "-"
    /\ chain' = <<>>
    /\ one' = Unit

\* The outcome of a call on the value v obtained from the previous call.
Chained(o, v, a, r) ==
    /\ op' = o
    /\ recv' = v
    /\ arg' = a
    /\ ret' = r
    /\ orig' = IF chain = <<>> THEN recv ELSE orig
    /\ chain' = Append(chain, op)
    /\ one' = one

\* c.color_adapt(t) on a new colour c
ColorAdapt ==
    /\ op = "none"
    /\ \E c \in XYZInputs, t \in Illuminants :
        Call("color_adapt", c, t, color_adapt(c, t))

\* c.color_adapt(t) on a new colour c far outside the nominal range
ColorAdaptWide ==
    /\ op = "none"
    /\ \E c \in WideXYZInputs, t \in Illuminants :
        /\ op' = "color_adapt"
        /\ recv' = c
        /\ arg' = t
        /\ ret' = color_adapt(c, t)
        /\ orig' = "-"
        /\ chain' = <<>>
        /\ one' = 1

\* (...).color_adapt(t) on the result of the previous color_adapt
ColorAdaptChained ==
    /\ op = "color_adapt"
    /\ Len(chain) + 1 < MaxChain
    /\ \E t \in Illuminants :
        Chained("color_adapt", ret, t, color_adapt(ret, t))

\* a.mix(b) for XYZColor
MixXYZ ==
    /\ op = "none"
    /\ \E a \in MixInputs, b \in MixOthers :
        Call("mix_xyz", a, b, XYZColor_mix(a, b))

\* c.to_xyz(i) for XYZColor
ToXyzXYZ ==
    /\ op = "none"
    /\ \E c \in XYZInputs, i \in Illuminants :
        Call("xyz_to_xyz", c, i, XYZColor_to_xyz(c, i))

\* XYZColor::from_xyz(c)
FromXyzXYZ ==
    /\ op = "none"
    /\ \E c \in XYZInputs :
        Call("xyz_from_xyz", c, "-", XYZColor_from_xyz(c))

\* c.convert::<XYZColor>() for XYZColor
ConvertXYZ ==
    /\ op = "none"
    /\ \E c \in XYZInputs :
        Call("xyz_convert_xyz", c, "-", XYZColor_convert_XYZColor(c))

\* RGBColor::from_xyz(c)
FromXyzRGB ==
    /\ op = "none"
    /\ \E c \in XYZInputs :
        Call("rgb_from_xyz", c, "-", RGBColor_from_xyz(c))

\* a.mix(b) for RGBColor
MixRGB ==
    /\ op = "none"
    /\ \E a \in RGBMixInputs, b \in RGBMixInputs :
        Call("mix_rgb", a, b, RGBColor_mix(a, b))

\* c.to_string() for RGBColor
ToStringRGB ==
    /\ op = "none"
    /\ \E c \in RGBInputs :
        Call("to_string", c, "-", RGBColor_to_string(c))

\* RGBColor::from_hex_code(s)
FromHexCode ==
    /\ op = "none"
    /\ \E s \in HexInputs :
        Call("from_hex_code", s, "-", RGBColor_from_hex_code(s))

\* RGBColor::from_hex_code(c.to_string()): the string just printed is parsed
FromHexCodeOfString ==
    /\ op = "to_string"
    /\ Len(chain) + 1 < MaxChain
    /\ Chained("from_hex_code", ret, "-", RGBColor_from_hex_code(ret))

\* RGBColor::from_hex_code(s).unwrap().to_string(): the colour just parsed
\* is printed
ToStringOfParsed ==
    /\ op = "from_hex_code"
    /\ ret.tag = "Ok"
    /\ Len(chain) + 1 < MaxChain
    /\ Chained("to_string", ret.val, "-", RGBColor_to_string(ret.val))

\* c.to_xyz(i) for RGBColor
ToXyzRGB ==
    /\ op = "none"
    /\ \E c \in RoundTripInputs, i \in Illuminants :
        Call("rgb_to_xyz", c, i, RGBColor_to_xyz(c, i))

\* RGBColor::from_xyz(c.to_xyz(i)): the XYZ colour just obtained is
\* converted back
FromXyzRGBOfToXyz ==
    /\ op = "rgb_to_xyz"
    /\ Len(chain) + 1 < MaxChain
    /\ Chained("rgb_from_xyz", ret, "-", RGBColor_from_xyz(ret))

\* c.convert::<RGBColor>() for RGBColor
ConvertRGB ==
    /\ op = "none"
    /\ \E c \in RoundTripInputs :
        Call("rgb_convert_rgb", c, "-", RGBColor_convert_RGBColor(c))

\* uncorrect_gamma(v / 255.0) for a channel v, as RGBColor::to_xyz calls it
UncorrectGamma ==
    /\ op = "none"
    /\ \E v \in 0..255 :
        Call("uncorrect_gamma", v, "-", uncorrect_gamma(scaled(v)))

\* gamma_correct(x) for a linear value x, as RGBColor::from_xyz calls it
GammaCorrect ==
    /\ op = "none"
    /\ \E y \in GammaInputs :
        Call("gamma_correct", y, "-", gamma_correct_tenths(y))

\* RGBColor::from_color_name(s)
FromColorName ==
    /\ op = "none"
    /\ \E s \in NameInputs :
        Call("from_color_name", s, "-", RGBColor_from_color_name(s))

Next ==
    \/ ColorAdapt
    \/ ColorAdaptWide
    \/ ColorAdaptChained
    \/ MixXYZ
    \/ ToXyzXYZ
    \/ FromXyzXYZ
    \/ ConvertXYZ
    \/ FromXyzRGB
    \/ MixRGB
    \/ ToStringRGB
    \/ FromHexCode
    \/ FromHexCodeOfString
    \/ ToStringOfParsed
    \/ FromColorName
    \/ ToXyzRGB
    \/ FromXyzRGBOfToXyz
    \/ ConvertRGB
    \/ UncorrectGamma
    \/ GammaCorrect

Spec == Init /\ [][Next]_vars

\* ------------------------------------------------------------------ claims
Abs(v) == IF v < 0 THEN -v ELSE v

\* The coordinates of two XYZ colours are the same, whatever their tags.
SameCoordinates(c, d) == c.x = d.x /\ c.y = d.y /\ c.z = d.z

\* m is the mean of u and v, the half unit of an odd sum rounded up.
IsMean(m, u, v) == 2 * m - (u + v) \in {0, 1}

\* C1: color_adapt to the colour's own illuminant returns the colour as it
\* is: the same x, y, z and the same tag, for new colours and for colours
\* that are themselves the result of an adaptation.
AdaptToOwnIlluminantIsIdentity ==
    (op = "color_adapt" /\ arg = recv.illuminant) => ret = recv

\* A colour that an adaptation has moved off the grid is adapted to the
\* illuminant it now has.
AdaptToOwnIlluminantHappens ==
    /\ op = "color_adapt"
    /\ chain = <<"color_adapt">>
    /\ arg = recv.illuminant
    /\ recv.illuminant # orig.illuminant
    /\ recv.x > 0
    /\ ret = recv

\* C2: every channel of a.mix(b) for RGB colours is floor((a.ch + b.ch) / 2),
\* also when the sum exceeds 255, and lies in 0..255; the three mixes of
\* test_mix_rgb give (127,0,128), (63,3,137) and (191,3,10).
MixRGBIsFloorOfMean ==
    op = "mix_rgb" =>
        /\ ret.r = (recv.r + arg.r) \div 2
        /\ ret.g = (recv.g + arg.g) \div 2
        /\ ret.b = (recv.b + arg.b) \div 2
        /\ {ret.r, ret.g, ret.b} \subseteq 0..255
        /\ (recv = RGB(0, 0, 255) /\ arg = RGB(255, 0, 1)) => ret = RGB(127, 0, 128)
        /\ (recv = RGB(0, 0, 255) /\ arg = RGB(127, 7, 19)) => ret = RGB(63, 3, 137)
        /\ (recv = RGB(255, 0, 1) /\ arg = RGB(127, 7, 19)) => ret = RGB(191, 3, 10)

\* Two colours whose red channels add up to more than 255 are mixed.
MixRGBBeyondEightBitsHappens ==
    /\ op = "mix_rgb"
    /\ recv = RGB(255, 0, 1)
    /\ arg = RGB(127, 7, 19)
    /\ recv.r + arg.r > 255
    /\ ret = RGB(191, 3, 10)

\* C3 as stated: a.mix(b) equals b.mix(a) for RGB colours, and for XYZ
\* colours b.mix(a) adapted to the illuminant of a.mix(b) has exactly the
\* coordinates of a.mix(b).
MixCommutesExactly ==
    /\ op = "mix_rgb" => RGBColor_eq(RGBColor_mix(arg, recv), ret)
    /\ op = "mix_xyz" =>
           SameCoordinates(color_adapt(XYZColor_mix(arg, recv), ret.illuminant), ret)

\* C3 as amended: a.mix(b) equals b.mix(a) for RGB colours; for XYZ colours
\* a.mix(b) and b.mix(a) are approx_visually_equal, that is within 0.001 on
\* every coordinate once b.mix(a) is adapted to the illuminant of a.mix(b),
\* and they are equal outright when a and b have the same illuminant.
MixCommutesVisually ==
    /\ op = "mix_rgb" => RGBColor_eq(RGBColor_mix(arg, recv), ret)
    /\ op = "mix_xyz" =>
           \A swapped \in {XYZColor_mix(arg, recv)} :
               /\ approx_visually_equal(ret, swapped)
               /\ recv.illuminant = arg.illuminant => swapped = ret

\* Two XYZ colours under different illuminants are mixed, and the two orders
\* give different tags and, after adaptation, different coordinates.
MixAcrossIlluminantsHappens ==
    /\ op = "mix_xyz"
    /\ recv.illuminant # arg.illuminant
    /\ XYZColor_mix(arg, recv).illuminant # ret.illuminant
    /\ ~ SameCoordinates(color_adapt(XYZColor_mix(arg, recv), ret.illuminant), ret)

\* C4: a.mix(b) for XYZ colours has the tag of a and, on every coordinate,
\* the mean of a and of b adapted to the illuminant of a; with one
\* illuminant for both it is exactly the mean of a and b, and (0.5, 0.25,
\* 0.75) mixed with (0.75, 0.5, 0.25) is (0.625, 0.375, 0.5) in either order.
MixXYZIsMeanUnderIlluminantOfSelf ==
    op = "mix_xyz" =>
        /\ ret.illuminant = recv.illuminant
        /\ \A other_c \in {color_adapt(arg, recv.illuminant)} :
               /\ IsMean(ret.x, recv.x, other_c.x)
               /\ IsMean(ret.y, recv.y, other_c.y)
               /\ IsMean(ret.z, recv.z, other_c.z)
        /\ recv.illuminant = arg.illuminant =>
               /\ 2 * ret.x = recv.x + arg.x
               /\ 2 * ret.y = recv.y + arg.y
               /\ 2 * ret.z = recv.z + arg.z
        /\ ( /\ recv.illuminant = arg.illuminant
             /\ {<<recv.x, recv.y, recv.z>>, <<arg.x, arg.y, arg.z>>}
                    = {<<500000, 250000, 750000>>, <<750000, 500000, 250000>>} )
           => SameCoordinates(ret, XYZ(625000, 375000, 500000, recv.illuminant))

\* Two XYZ colours under different illuminants are mixed: the result has the
\* tag of the receiver and is not the mean of the coordinates as given.
MixXYZAdaptsOtherHappens ==
    /\ op = "mix_xyz"
    /\ recv.illuminant # arg.illuminant
    /\ ret.illuminant = recv.illuminant
    /\ ~ IsMean(ret.x, recv.x, arg.x)

\* C5: the result of color_adapt is tagged with the target of that call,
\* and a call chained on a result finds that result as the call before left
\* it, still tagged with the target of the call before.
AdaptTagsResultWithTarget ==
    [][ op' = "color_adapt" =>
            /\ ret'.illuminant = arg'
            /\ op = "color_adapt" =>
                   /\ recv' = ret
                   /\ recv'.illuminant = arg ]_vars

\* A second adaptation is chained on a first, each to an illuminant the
\* colour did not have.
AdaptChainHappens ==
    /\ op = "color_adapt"
    /\ chain = <<"color_adapt">>
    /\ orig.illuminant # recv.illuminant
    /\ recv.illuminant # arg
    /\ orig.illuminant # arg
    /\ ret.illuminant = arg

\* C6: to_xyz and from_xyz of XYZColor return their colour as it is, tag
\* included, whatever illuminant to_xyz is asked for; so does convert to
\* XYZColor, which asks for D50.
XYZConversionIsIdentity ==
    /\ op = "xyz_to_xyz" => ret = recv
    /\ op = "xyz_from_xyz" => ret = recv
    /\ op = "xyz_convert_xyz" => ret = recv

\* to_xyz is asked for an illuminant the colour does not have.
XYZToOtherIlluminantHappens ==
    /\ op = "xyz_to_xyz"
    /\ arg # recv.illuminant
    /\ recv.x > 0
    /\ ret.illuminant = recv.illuminant

\* The channel of an RGB colour at index k of (r, g, b).
Channel(c, k) == <<c.r, c.g, c.b>>[k]

\* C7: every channel of RGBColor::from_xyz lies in 0..255 and is 255 times
\* the clamped gamma-encoded value e, rounded: 255 for e >= 1, 0 for e <= 0,
\* and within a half of 255 * e in between.
FromXYZClampsThenRounds ==
    op = "rgb_from_xyz" =>
        \A fv \in {float_vec(recv)} : \A k \in 1..3 :
            /\ Channel(ret, k) \in 0..255
            /\ fv[k] >= Unit => Channel(ret, k) = 255
            /\ fv[k] <= 0 => Channel(ret, k) = 0
            /\ (0 < fv[k] /\ fv[k] < Unit) =>
                   2 * Abs(255 * fv[k] - Channel(ret, k) * Unit) <= Unit

\* A colour outside the sRGB gamut is converted: one encoded channel above
\* 1, one below 0 and one in between.
FromXYZOutOfGamutHappens ==
    /\ op = "rgb_from_xyz"
    /\ \E fv \in {float_vec(recv)} :
        /\ fv[1] > Unit /\ ret.r = 255
        /\ fv[2] < 0 /\ ret.g = 0
        /\ 0 < fv[3] /\ fv[3] < Unit /\ ret.b \in 1..254

\* What is left of a string once one leading hash sign is removed.
WithoutHash(s) == IF s # <<>> /\ s[1] = "#" THEN Tail(s) ELSE s

\* A string that is no hex code: after the hash sign it has neither three
\* nor six characters, or a character that is no hex digit.
Malformed(s) ==
    \/ Len(WithoutHash(s)) \notin {3, 6}
    \/ \E i \in 1..Len(WithoutHash(s)) : WithoutHash(s)[i] \notin HexChars

\* C8: from_hex_code returns Err(InvalidHexSyntax) for every malformed
\* string, the empty string and "#" included, and fails on none.
MalformedHexIsAnError ==
    (op = "from_hex_code" /\ Malformed(recv)) =>
        (ret.tag = "Err" /\ ret.val = "InvalidHexSyntax")

\* The set of the digits of a table.
DigitsIn(table) == {table[i] : i \in 1..16}

\* s is a hash sign followed by six digits of the table, two per channel in
\* the order r, g, b, each pair the value of its channel.
IsHexCodeOf(s, c, table) ==
    /\ Len(s) = 7
    /\ s[1] = "#"
    /\ \A i \in 2..7 : s[i] \in DigitsIn(table)
    /\ \A k \in 1..3 :
           16 * to_digit(s[2 * k]) + to_digit(s[2 * k + 1]) = Channel(c, k)

\* C9 as stated: to_string gives a hash sign and six lower-case hex digits,
\* two zero-padded digits per channel in the order r, g, b.
ToStringIsLowerCaseHex ==
    op = "to_string" => IsHexCodeOf(ret, recv, LowerHexDigits)

\* C9 as amended: to_string gives a hash sign and six upper-case hex digits
\* (0-9, A-F), two zero-padded digits per channel in the order r, g, b.
ToStringIsUpperCaseHex ==
    op = "to_string" => IsHexCodeOf(ret, recv, UpperHexDigits)

\* The colour of test_rgb_to_string with letters among its digits is
\* printed.
ToStringWithLettersHappens ==
    /\ op = "to_string"
    /\ recv = RGB(244, 182, 33)
    /\ ret = <<"#", "F", "4", "B", "6", "2", "1">>

\* C10: parsing what to_string printed gives back the colour, and printing
\* what was parsed from a hash sign and six digits out of 0-9, A-F gives
\* back the string.
HexPrintAndParseAreInverse ==
    /\ (op = "from_hex_code" /\ chain = <<"to_string">>) =>
           (ret.tag = "Ok" /\ ret.val = orig)
    /\ (op = "to_string" /\ chain = <<"from_hex_code">>
           /\ Len(orig) = 7 /\ orig[1] = "#"
           /\ \A i \in 2..Len(orig) : orig[i] \in DigitsIn(UpperHexDigits)) =>
           ret = orig

\* A string with letters among its six upper-case digits is parsed and the
\* colour printed.
HexParseThenPrintHappens ==
    /\ op = "to_string"
    /\ chain = <<"from_hex_code">>
    /\ Len(orig) = 7
    /\ orig[1] = "#"
    /\ orig[2] = "A"
    /\ orig[5] = "9"
    /\ ret = orig

\* The three-digit shorthand written out: each digit twice.
Doubled(d) == <<d[1], d[1], d[2], d[2], d[3], d[3]>>

\* The value of the two hex digits of d that start at index i.
PairValue(d, i) == 16 * to_digit(d[i]) + to_digit(d[i + 1])

\* C11: from_hex_code returns Ok exactly for three or six hex digits of
\* either case behind at most one hash sign; six digits give the values of
\* the three pairs as r, g, b; the hash sign makes no difference; and three
\* digits give what the six doubled digits give.
FromHexCodeAcceptsFourFormats ==
    op = "from_hex_code" =>
        \A d \in {WithoutHash(recv)}, wellformed \in {~ Malformed(recv)} :
            /\ ret.tag = "Ok" <=> wellformed
            /\ (wellformed /\ Len(d) = 6) =>
                   ret = Ok(RGB(PairValue(d, 1), PairValue(d, 3), PairValue(d, 5)))
            /\ (wellformed /\ Len(d) = 3) =>
                   /\ ret = RGBColor_from_hex_code(Doubled(d))
                   /\ ret = RGBColor_from_hex_code(<<"#">> \o Doubled(d))
            /\ wellformed =>
                   /\ ret = RGBColor_from_hex_code(d)
                   /\ ret = RGBColor_from_hex_code(<<"#">> \o d)

\* A three-digit code of both cases behind a hash sign is parsed as its
\* doubled digits.
FromHexCodeShorthandHappens ==
    /\ op = "from_hex_code"
    /\ recv = <<"#", "b", "c", "D">>
    /\ ret = Ok(RGB(187, 204, 221))

\* The indices of the name table at which the name s stands.
NameIndices(s) == {i \in 1..Len(color_names) : color_names[i] = s}

\* The colour written by a hash sign and six hex digits.
ColourOfCode(code) ==
    RGB(PairValue(Tail(code), 1), PairValue(Tail(code), 3), PairValue(Tail(code), 5))

MixToSelfMeansSame ==
    (op \in {"mix_rgb", "mix_xyz"} /\ ret = recv) => arg = recv

\* C14: converting an RGB colour to XYZ under any illuminant and back gives
\* the colour it started from, channel for channel, and so does convert to
\* RGBColor, which goes through D50.
RGBRoundTripIsLossless ==
    /\ (op = "rgb_from_xyz" /\ chain = <<"rgb_to_xyz">>) => ret = orig
    /\ op = "rgb_convert_rgb" => ret = recv

\* The colour of the test rgb_to_xyz is taken to XYZ under D50, an
\* illuminant other than that of sRGB, and back.
RGBRoundTripHappens ==
    /\ op = "rgb_from_xyz"
    /\ chain = <<"rgb_to_xyz">>
    /\ orig = RGB(45, 28, 156)
    /\ recv.illuminant = "D50"
    /\ ret = RGB(45, 28, 156)

\* The coordinates of two XYZ colours differ by 0.01 at most.
WithinHundredth(c, d) ==
    /\ 100 * Abs(c.x - d.x) <= one
    /\ 100 * Abs(c.y - d.y) <= one
    /\ 100 * Abs(c.z - d.z) <= one

\* The result of the chain of adaptations that ends in this call agrees
\* with adapting the first colour straight to the last target, with going
\* through any one illuminant other than its own, and, when the target is
\* the illuminant of the first colour, with that colour.
AdaptChainAgrees ==
    /\ WithinHundredth(ret, color_adapt(orig, arg))
    /\ \A i \in Illuminants \ {orig.illuminant} :
           WithinHundredth(ret, color_adapt(color_adapt(orig, i), arg))
    /\ arg = orig.illuminant => WithinHundredth(ret, orig)

\* C15 as stated: for every XYZ colour, a chain of adaptations agrees within
\* 0.01 per coordinate with the direct adaptation and with any other chain
\* to the same target.
AdaptChainIsStable ==
    (op = "color_adapt" /\ chain # <<>>) => AdaptChainAgrees

\* C15 as amended: for every XYZ colour with coordinates in the nominal
\* range 0..1, a chain of adaptations agrees within 0.01 per coordinate with
\* the direct adaptation and with any other chain to the same target.
AdaptChainIsStableInNominalRange ==
    (op = "color_adapt" /\ chain # <<>> /\ one = Unit) => AdaptChainAgrees

\* A colour in the nominal range is adapted from D65 to D50 and on to D55,
\* as in test_xyz_color_adaptation.
AdaptChainInNominalRangeHappens ==
    /\ op = "color_adapt"
    /\ chain = <<"color_adapt">>
    /\ one = Unit
    /\ orig = XYZ(2 * Quarter, 3 * Quarter, Quarter, "D65")
    /\ recv.illuminant = "D50"
    /\ arg = "D55"
    /\ ret.illuminant = "D55"

\* C16: to_xyz linearizes the channel v as (v/255)/12.92 exactly when
\* v/255 <= 0.04045, which is when v is in 0..10, and as
\* ((v/255 + 0.055)/1.055)^2.4 otherwise; from_xyz encodes x as 12.92 * x
\* exactly when x <= 0.0031308, every negative x included, and as
\* 1.055 * x^(1/2.4) - 0.055 otherwise, never of a negative x.
GammaThresholdsAreInclusive ==
    /\ op = "uncorrect_gamma" =>
           \A x \in {scaled(recv)} :
               /\ x <= 40450 <=> recv \in 0..10
               /\ recv \in 0..10 => ret = Div(x, 12920000)
               /\ recv \in 11..255 => ret = powf_2_4(Div(x + 55000, 1055000))
    /\ op = "gamma_correct" =>
           /\ recv <= 31308 => ret = Mul(1292000, recv)
           /\ recv > 31308 =>
                  /\ recv > 0
                  /\ ret = Mul(1055000, powf_1_over_2_4((recv + 5) \div 10)) - 55000
           /\ recv < 0 => ret < 0

\* The linear value 0.0031308 itself is encoded on the linear branch, as
\* 12.92 * 0.0031308 = 0.040450.
GammaAtThresholdHappens ==
    /\ op = "gamma_correct"
    /\ recv = 31308
    /\ ret = 40450

====
